---- MODULE Spec2Model ----
(***************************************************************************)
(* A model of the ray tracer of graphics/ray-tracing: the ray/sphere       *)
(* intersection (sphere.cpp), the scene scan, the recursive shading kernel *)
(* ray_color and the render loops of the two main programs.                *)
(*                                                                         *)
(* Numbers.  The program computes in double.  The model computes in exact  *)
(* real arithmetic: a value is a rational n/d (d > 0, lowest terms), the   *)
(* point 1/0 for +infinity, or p + k sqrt(rad) with p, k, rad rational.    *)
(* All of one quadratic field Q(sqrt(rad)) is closed under the arithmetic  *)
(* and the comparisons; the inputs of each specification are restricted    *)
(* (the InDomain predicates) to those on which the code never combines     *)
(* roots of two fields and never takes the root of an irrational, so each  *)
(* value of the model is the exact real value of the code's expression.    *)
(* Rounding error of double is outside the model.                          *)
(***************************************************************************)
EXTENDS Integers, Sequences, FiniteSets

VARIABLES
    call,          \* the function applied and its arguments
    ret,           \* its result, once pc = "returned"
    cfg,           \* main: the compiled-in constants in force
    pc,            \* main: position in main()
    j, i, s,       \* main: the three loop counters
    pixel_color,   \* main: the accumulator, as the sequence of its addends
    out            \* main: what was written to std::cout, summarised

vars == <<call, ret, cfg, pc, j, i, s, pixel_color, out>>

-----------------------------------------------------------------------------
(* double, as exact numbers *)

Abs(x) == IF x < 0 THEN -x ELSE x

RECURSIVE GCD(_, _)
GCD(a, b) == IF b = 0 THEN a ELSE GCD(b, a % b)

\* The rational n/d in lowest terms, d > 0.
R(n, d) ==
    LET g == GCD(Abs(n), Abs(d))
        sg == IF d < 0 THEN -1 ELSE 1
    IN  [n |-> (sg * n) \div g, d |-> (sg * d) \div g]

Zero == [n |-> 0, d |-> 1]

One == [n |-> 1, d |-> 1]

Half == [n |-> 1, d |-> 2]

infinity == [n |-> 1, d |-> 0]

\* Rational arithmetic: a + b over the least common denominator, a * b after
\* cross-cancelling.
QAdd(a, b) ==
    LET g == GCD(a.d, b.d)
    IN  R(a.n * (b.d \div g) + b.n * (a.d \div g), (a.d \div g) * b.d)

QNeg(a) == [n |-> -a.n, d |-> a.d]

QMul(a, b) ==
    LET g1 == GCD(Abs(a.n), b.d)
        g2 == GCD(Abs(b.n), a.d)
    IN  R((a.n \div g1) * (b.n \div g2), (a.d \div g2) * (b.d \div g1))

QInv(a) == R(a.d, a.n)

\* an/ad < bn/bd (ad, bd > 0) by integer parts and then the reciprocals of
\* the fractional parts: the comparison of the two real values, with no
\* product formed.
RECURSIVE FracLt(_, _, _, _)
FracLt(an, ad, bn, bd) ==
    IF an \div ad # bn \div bd THEN an \div ad < bn \div bd
    ELSE IF an % ad = 0 THEN bn % bd > 0
    ELSE IF bn % bd = 0 THEN FALSE
    ELSE FracLt(bd, bn % bd, ad, an % ad)

QLt(a, b) == FracLt(a.n, a.d, b.n, b.d)

\* An irrational value p + k sqrt(rad): p = n/d and k # 0 rational, rad a
\* squarefree integer > 1 (as the rational rad/1).
IsSurd(a) == "rad" \in DOMAIN a

RatPart(a) == [n |-> a.n, d |-> a.d]

Coef(a) == IF IsSurd(a) THEN a.k ELSE Zero

Surd(p, k, rad) ==
    IF k = Zero THEN p ELSE [n |-> p.n, d |-> p.d, k |-> k, rad |-> rad]

\* Two values of different quadratic fields have no representation here.
Unrepresentable == "unrepresentable"

SameField(a, b) == ~(IsSurd(a) /\ IsSurd(b) /\ a.rad # b.rad)

RadOf(a, b) == IF IsSurd(a) THEN a.rad ELSE b.rad

RNeg(a) ==
    IF IsSurd(a) THEN Surd(QNeg(RatPart(a)), QNeg(a.k), a.rad) ELSE QNeg(a)

RAdd(a, b) ==
    IF ~IsSurd(a) /\ ~IsSurd(b) THEN QAdd(a, b)
    ELSE IF ~SameField(a, b) THEN Unrepresentable
    ELSE Surd(QAdd(RatPart(a), RatPart(b)), QAdd(Coef(a), Coef(b)), RadOf(a, b))

RSub(a, b) == RAdd(a, RNeg(b))

RMul(a, b) ==
    IF ~IsSurd(a) /\ ~IsSurd(b) THEN QMul(a, b)
    ELSE IF ~SameField(a, b) THEN Unrepresentable
    ELSE LET pa == RatPart(a)
             pb == RatPart(b)
             rad == RadOf(a, b)
         IN  Surd(QAdd(QMul(pa, pb), QMul(QMul(Coef(a), Coef(b)), rad)),
                  QAdd(QMul(pa, Coef(b)), QMul(pb, Coef(a))),
                  rad)

\* 1/(p + k sqrt(rad)) = (p - k sqrt(rad)) / (p^2 - k^2 rad).
RInv(a) ==
    IF ~IsSurd(a) THEN QInv(a)
    ELSE LET p == RatPart(a)
             norm == QAdd(QMul(p, p), QNeg(QMul(QMul(a.k, a.k), a.rad)))
         IN  Surd(QMul(p, QInv(norm)), QNeg(QMul(a.k, QInv(norm))), a.rad)

RDiv(a, b) == RMul(a, RInv(b))

RECURSIVE ISqrtIter(_, _)
ISqrtIter(n, x) ==
    LET y == (x + n \div x) \div 2
    IN  IF y >= x THEN x ELSE ISqrtIter(n, y)

\* The integer part of the square root of n >= 0.
ISqrt(n) == IF n <= 0 THEN 0 ELSE ISqrtIter(n, n)

\* x < an/bn for the irrational x = (mm + sqrt(rad))/dd > 1 with integer part
\* aa, by the continued fractions of the two: the first partial quotient in
\* which they differ decides, and no product of large numbers is formed.
\* fl is the integer part of sqrt(rad).
RECURSIVE QuotientBelow(_, _, _, _, _, _, _)
NextQuotient(mm, dd, an, bn, rad, fl) ==
    QuotientBelow(mm, dd, (fl + mm) \div dd, an, bn, rad, fl)

QuotientBelow(mm, dd, aa, an, bn, rad, fl) ==
    IF aa # an \div bn THEN aa < an \div bn
    ELSE IF an % bn = 0 THEN FALSE
    ELSE ~NextQuotient(dd * aa - mm,
                       (rad - (dd * aa - mm) * (dd * aa - mm)) \div dd,
                       bn, an % bn, rad, fl)

\* sqrt(rad) < m for a rational m >= 0 and a squarefree integer rad > 1.
SqrtBelow(rad, m) ==
    QuotientBelow(0, 1, ISqrt(rad.n), m.n, m.d, rad.n, ISqrt(rad.n))

\* p + k sqrt(rad) < 0, decided exactly: sqrt(rad) against m = -p/k.
SurdNegative(a) ==
    LET m == QNeg(QMul(RatPart(a), QInv(a.k)))
    IN  IF QLt(Zero, a.k)
        THEN QLt(Zero, m) /\ SqrtBelow(a.rad, m)
        ELSE QLt(m, Zero) \/ ~SqrtBelow(a.rad, m)

RLt(a, b) ==
    IF a.d = 0 THEN FALSE
    ELSE IF b.d = 0 THEN TRUE
    ELSE IF ~IsSurd(a) /\ ~IsSurd(b) THEN QLt(a, b)
    ELSE LET diff == RSub(a, b)
         IN  IF IsSurd(diff) THEN SurdNegative(diff) ELSE QLt(diff, Zero)

RLe(a, b) == a = b \/ RLt(a, b)

IsSquare(q) ==
    /\ q.n >= 0
    /\ ISqrt(q.n) * ISqrt(q.n) = q.n
    /\ ISqrt(q.d) * ISqrt(q.d) = q.d

\* The largest m with m^2 dividing n >= 1.
SquarePart(n) ==
    LET sq == {f \in 1..ISqrt(n) : n % (f * f) = 0}
    IN  CHOOSE m \in sq : \A f \in sq : f <= m

\* sqrt(n/d) = (a/(b g)) sqrt(f g) with n = a^2 f, d = b^2 g, f and g
\* squarefree: the radicand is a squarefree integer, the same for every
\* rational of one quadratic field.
IrrationalRoot(q) ==
    LET a == SquarePart(q.n)
        b == SquarePart(q.d)
        f == q.n \div (a * a)
        g == q.d \div (b * b)
    IN  Surd(Zero, R(a, b * g), R(f * g, 1))

\* std::sqrt of a rational q >= 0, exactly.
sqrt(q) ==
    IF IsSquare(q) THEN [n |-> ISqrt(q.n), d |-> ISqrt(q.d)]
    ELSE IrrationalRoot(q)

-----------------------------------------------------------------------------
(* vec3 *)

vec3(e0, e1, e2) == <<e0, e1, e2>>

VecI(x, y, z, d) == vec3(R(x, d), R(y, d), R(z, d))

y_of(v) == v[2]

VNeg(v) == vec3(RNeg(v[1]), RNeg(v[2]), RNeg(v[3]))

VAdd(u, v) == vec3(RAdd(u[1], v[1]), RAdd(u[2], v[2]), RAdd(u[3], v[3]))

VSub(u, v) == vec3(RSub(u[1], v[1]), RSub(u[2], v[2]), RSub(u[3], v[3]))

VScale(t, v) == vec3(RMul(t, v[1]), RMul(t, v[2]), RMul(t, v[3]))

VDiv(v, t) == VScale(RDiv(One, t), v)

dot(u, v) == RAdd(RAdd(RMul(u[1], v[1]), RMul(u[2], v[2])), RMul(u[3], v[3]))

length_squared(v) == RAdd(RAdd(RMul(v[1], v[1]), RMul(v[2], v[2])), RMul(v[3], v[3]))

length(v) == sqrt(length_squared(v))

unit_vector(v) == VDiv(v, length(v))

-----------------------------------------------------------------------------
(* ray *)

ray(origin, direction) == [orig |-> origin, dir |-> direction]

at(r, t) == VAdd(r.orig, VScale(t, r.dir))

-----------------------------------------------------------------------------
(* hit_record, sphere *)

Indeterminate == "indeterminate"

UninitRec ==
    [t |-> Indeterminate, p |-> VecI(0, 0, 0, 1), normal |-> VecI(0, 0, 0, 1),
     front_face |-> Indeterminate]

set_face_normal(rec, r, outward_normal) ==
    LET front_face == RLt(dot(r.dir, outward_normal), Zero)
    IN  [rec EXCEPT !.front_face = front_face,
                    !.normal = IF front_face THEN outward_normal
                               ELSE VNeg(outward_normal)]

sphere(cen, rad) == [center |-> cen, radius |-> rad]

\* The coefficients of the quadratic in t, from oc = origin - center.
Coefficients(sp, r, oc) ==
    [a |-> length_squared(r.dir),
     half_b |-> dot(oc, r.dir),
     c |-> RSub(length_squared(oc), RMul(sp.radius, sp.radius))]

discriminant(q) == RSub(RMul(q.half_b, q.half_b), RMul(q.a, q.c))

\* Two wrong range tests, to compare with OutsideRange: one without the
\* upper end, one that also rejects a root equal to t_min.
OutsideRange_NoUpper(root, t_min, t_max) == RLt(root, t_min)

OutsideRange_OpenLower(root, t_min, t_max) == RLe(root, t_min) \/ RLt(t_max, root)

\* root < t_min || root > t_max.
OutsideRange(root, t_min, t_max) == RLt(root, t_min) \/ RLt(t_max, root)

\* A wrong near root (the far one), to compare with NearRoot.
NearRoot_Far(half_b, sqrtd, a) == RDiv(RAdd(RNeg(half_b), sqrtd), a)

NearRoot(half_b, sqrtd, a) == RDiv(RSub(RNeg(half_b), sqrtd), a)

FarRoot(half_b, sqrtd, a) == RDiv(RAdd(RNeg(half_b), sqrtd), a)

\* A wrong outward normal (towards the centre), to compare with OutwardNormal.
OutwardNormal_Inward(sp, p) == VDiv(VSub(sp.center, p), sp.radius)

OutwardNormal(sp, p) == VDiv(VSub(p, sp.center), sp.radius)

\* sphere::hit, from its last statements to its first: the returned flag and
\* rec as the call leaves it.
Record(sp, r, rec, root, p) ==
    [hit |-> TRUE,
     rec |-> set_face_normal([rec EXCEPT !.t = root, !.p = p], r,
                             OutwardNormal(sp, p))]

Accept(sp, r, rec, root) == Record(sp, r, rec, root, at(r, root))

Nearest(sp, r, t_min, t_max, rec, near, far) ==
    IF ~OutsideRange(near, t_min, t_max) THEN Accept(sp, r, rec, near)
    ELSE IF ~OutsideRange(far, t_min, t_max) THEN Accept(sp, r, rec, far)
    ELSE [hit |-> FALSE, rec |-> rec]

Roots(sp, r, t_min, t_max, rec, q, sqrtd) ==
    Nearest(sp, r, t_min, t_max, rec, NearRoot(q.half_b, sqrtd, q.a),
            FarRoot(q.half_b, sqrtd, q.a))

Solve(sp, r, t_min, t_max, rec, q, disc) ==
    IF RLt(disc, Zero) THEN [hit |-> FALSE, rec |-> rec]
    ELSE Roots(sp, r, t_min, t_max, rec, q, sqrt(disc))

Intersect(sp, r, t_min, t_max, rec, q) ==
    Solve(sp, r, t_min, t_max, rec, q, discriminant(q))

SphereHit(sp, r, t_min, t_max, rec) ==
    Intersect(sp, r, t_min, t_max, rec,
              Coefficients(sp, r, VSub(r.orig, sp.center)))

\* hittable_list::hit: scan the members in order, each against the interval
\* narrowed to the closest hit so far.
RECURSIVE ScanObjects(_, _, _, _, _, _, _)
Scanned(objects, k, r, t_min, closest_so_far, hit_anything, rec, h) ==
    IF h.hit
    THEN ScanObjects(objects, k + 1, r, t_min, h.rec.t, TRUE, h.rec)
    ELSE ScanObjects(objects, k + 1, r, t_min, closest_so_far, hit_anything, rec)

ScanObjects(objects, k, r, t_min, closest_so_far, hit_anything, rec) ==
    IF k > Len(objects) THEN [hit |-> hit_anything, rec |-> rec]
    ELSE Scanned(objects, k, r, t_min, closest_so_far, hit_anything, rec,
                 SphereHit(objects[k], r, t_min, closest_so_far, UninitRec))

WorldHit(world, r, t_min, t_max, rec) ==
    ScanObjects(world, 1, r, t_min, t_max, FALSE, rec)

\* The discriminant of member sp for ray r.
DiscriminantOf(sp, r) ==
    discriminant(Coefficients(sp, r, VSub(r.orig, sp.center)))

IrrationalRoots(disc) == RLt(Zero, disc) /\ ~IsSquare(disc)

\* At most one member's roots for this ray are irrational: the scan's values
\* all lie in one quadratic field.
HitInDomain(world, r) ==
    Cardinality({k \in 1..Len(world) :
                    IrrationalRoots(DiscriminantOf(world[k], r))}) <= 1

-----------------------------------------------------------------------------
(* The calls of sphere::hit and hittable_list::hit that are explored *)

OriginBound == 1

TBound == 3

Coords == (-OriginBound)..OriginBound

Origins == {VecI(x, y, z, 1) : x \in {0}, y \in Coords, z \in Coords}
               \cup {VecI(x, 0, -2, 1) : x \in Coords}

Directions ==
    {VecI(0, 0, -1, 1), VecI(0, 0, -2, 1), VecI(0, 1, 0, 1), VecI(0, 1, -1, 1),
     VecI(1, 0, -1, 1), VecI(0, 3, -4, 1)}

Rays == {ray(o, d) : o \in Origins, d \in Directions}

\* The two spheres of main() and two unit spheres one behind the other.
SmallSphere == sphere(VecI(0, 0, -1, 1), R(1, 2))

GroundSphere == sphere(VecI(0, -201, -2, 2), R(100, 1))

SphereA == sphere(VecI(0, 0, -2, 1), R(1, 1))

SphereB == sphere(VecI(0, 0, -3, 1), R(1, 1))

Spheres == {SmallSphere, GroundSphere, SphereA, SphereB}

Worlds ==
    {<<>>} \cup {<<a>> : a \in Spheres}
           \cup {w \in {<<a, b>> : a \in Spheres, b \in Spheres} : w[1] # w[2]}

TMins == {Zero, R(1, 1000), One}

TMaxs == {R(k, 1) : k \in 1..TBound} \cup {infinity}

SphereCalls ==
    {[fn |-> "sphere::hit", world |-> <<a>>, r |-> r, t_min |-> lo, t_max |-> hi] :
        a \in Spheres, r \in Rays, lo \in TMins, hi \in TMaxs}

WorldCalls ==
    {[fn |-> "hittable_list::hit", world |-> w, r |-> r, t_min |-> lo,
      t_max |-> hi] :
        w \in Worlds, r \in Rays, lo \in {R(1, 1000), One}, hi \in TMaxs}

HitCalls == SphereCalls \cup {c \in WorldCalls : HitInDomain(c.world, c.r)}

NoRet == [hit |-> FALSE, rec |-> UninitRec]

MainIdle ==
    /\ cfg = [program |-> "none", image_width |-> 0, samples_per_pixel |-> 0,
              max_depth |-> 0]
    /\ j = 0 /\ i = 0 /\ s = 0
    /\ pixel_color = <<>>
    /\ out = [header |-> <<>>, pixels |-> 0, last |-> <<>>]

InitHit ==
    /\ call \in HitCalls
    /\ ret = NoRet
    /\ pc = "call"
    /\ MainIdle

CallSphereHit ==
    /\ pc = "call" /\ call.fn = "sphere::hit"
    /\ ret' = SphereHit(call.world[1], call.r, call.t_min, call.t_max, UninitRec)
    /\ pc' = "returned"
    /\ UNCHANGED <<call, cfg, j, i, s, pixel_color, out>>

CallWorldHit ==
    /\ pc = "call" /\ call.fn = "hittable_list::hit"
    /\ ret' = WorldHit(call.world, call.r, call.t_min, call.t_max, UninitRec)
    /\ pc' = "returned"
    /\ UNCHANGED <<call, cfg, j, i, s, pixel_color, out>>

NextHit == CallSphereHit \/ CallWorldHit

SpecHit == InitHit /\ [][NextHit]_vars

-----------------------------------------------------------------------------
(* The intersection claims, checked under SpecHit *)

SphereReturned == pc = "returned" /\ call.fn = "sphere::hit"

WorldReturned == pc = "returned" /\ call.fn = "hittable_list::hit"

\* The quadratic of sphere.cpp's header comment, a t^2 + 2 half_b t + c, at t.
Quadratic(sp, r, t) ==
    LET oc == VSub(r.orig, sp.center)
        qa == dot(r.dir, r.dir)
        qb == RMul(R(2, 1), dot(oc, r.dir))
        qc == RSub(dot(oc, oc), RMul(sp.radius, sp.radius))
    IN  RAdd(RAdd(RMul(qa, RMul(t, t)), RMul(qb, t)), qc)

\* The real roots of that quadratic, by the textbook formula with b and 4ac.
RealRoots(sp, r) ==
    LET oc == VSub(r.orig, sp.center)
        qa == dot(r.dir, r.dir)
        qb == RMul(R(2, 1), dot(oc, r.dir))
        qc == RSub(dot(oc, oc), RMul(sp.radius, sp.radius))
        d4 == RSub(RMul(qb, qb), RMul(R(4, 1), RMul(qa, qc)))
    IN  IF RLt(d4, Zero) THEN {}
        ELSE {RDiv(RSub(RNeg(qb), sqrt(d4)), RMul(R(2, 1), qa)),
              RDiv(RAdd(RNeg(qb), sqrt(d4)), RMul(R(2, 1), qa))}

InOpenClosed(t, lo, hi) == RLt(lo, t) /\ RLe(t, hi)

InClosed(t, lo, hi) == RLe(lo, t) /\ RLe(t, hi)

\* C1 as stated: sphere::hit accepts a parameter only from the open-closed
\* interval (t_min, t_max]: a reported rec.t satisfies t_min < rec.t <= t_max,
\* and a ray whose roots all lie outside that interval reports no hit.
C1_OpenClosedInterval ==
    SphereReturned =>
        /\ ret.hit => InOpenClosed(ret.rec.t, call.t_min, call.t_max)
        /\ (\A t \in RealRoots(call.world[1], call.r) :
                ~InOpenClosed(t, call.t_min, call.t_max)) => ~ret.hit

\* C1 amended: the accepted interval is the closed [t_min, t_max]: a reported
\* rec.t is a root with t_min <= rec.t <= t_max, a ray whose roots all lie
\* outside the closed interval reports no hit, and a root exactly equal to
\* t_min (with t_min <= t_max) is accepted, not excluded.
C1_ClosedInterval ==
    SphereReturned =>
        /\ ret.hit =>
            /\ InClosed(ret.rec.t, call.t_min, call.t_max)
            /\ Quadratic(call.world[1], call.r, ret.rec.t) = Zero
        /\ (\A t \in RealRoots(call.world[1], call.r) :
                ~InClosed(t, call.t_min, call.t_max)) => ~ret.hit
        /\ (/\ call.t_min \in RealRoots(call.world[1], call.r)
            /\ RLe(call.t_min, call.t_max)) => ret.hit

\* C1 witness: a hit reported at a root exactly equal to t_min.
C1_Witness ==
    /\ SphereReturned /\ ret.hit
    /\ ret.rec.t = call.t_min
    /\ ret.rec.t \in RealRoots(call.world[1], call.r)

\* C2: sphere::hit agrees with the reference "smallest valid root": no hit
\* when there is no real root or no root in the accepted interval, otherwise
\* the least root in the interval; with t1 < t2 both inside, rec.t = t1.
C2_SmallestValidRoot ==
    SphereReturned =>
        LET roots == RealRoots(call.world[1], call.r)
            valid == {t \in roots : InClosed(t, call.t_min, call.t_max)}
        IN  /\ ret.hit <=> valid # {}
            /\ ret.hit =>
                /\ ret.rec.t \in valid
                /\ \A t \in valid : RLe(ret.rec.t, t)
            /\ \A t1 \in roots, t2 \in roots :
                (/\ RLt(t1, t2)
                 /\ RLt(call.t_min, t1) /\ RLt(t2, call.t_max))
                    => ret.hit /\ ret.rec.t = t1

\* C2 witness: the ray starts inside the sphere, the smaller root is behind
\* t_min and the larger root is reported.
C2_Witness ==
    /\ SphereReturned /\ ret.hit
    /\ \E t1 \in RealRoots(call.world[1], call.r) :
        /\ RLt(t1, call.t_min)
        /\ RLt(t1, ret.rec.t)
    /\ RLt(Zero, call.t_min)

\* C3: for any reported hit the recorded normal is (rec.p - center)/radius or
\* its negation, dot(ray.direction, rec.normal) <= 0, and front_face is true
\* exactly when dot(ray.direction, outward normal) < 0.
C3_NormalAgainstRay ==
    SphereReturned /\ ret.hit =>
        LET sp == call.world[1]
            outward == VScale(RDiv(One, sp.radius), VSub(ret.rec.p, sp.center))
            facing == RLt(dot(call.r.dir, outward), Zero)
        IN  /\ ret.rec.front_face = facing
            /\ ret.rec.normal = IF facing THEN outward ELSE VNeg(outward)
            /\ RLe(dot(call.r.dir, ret.rec.normal), Zero)
            /\ length_squared(ret.rec.normal) = One

\* C3 witness: a hit from inside the sphere, where the normal was negated.
C3_Witness ==
    /\ SphereReturned /\ ret.hit
    /\ ret.rec.front_face = FALSE
    /\ RLt(dot(call.r.dir, ret.rec.normal), Zero)
    /\ RLt(length_squared(VSub(call.r.orig, call.world[1].center)),
           RMul(call.world[1].radius, call.world[1].radius))

Reverse(q) == [k \in 1..Len(q) |-> q[Len(q) + 1 - k]]

MemberHit(k) ==
    SphereHit(call.world[k], call.r, call.t_min, call.t_max, UninitRec)

\* C4: the scene's hit returns the globally nearest valid intersection: its
\* rec.t is the least t that a member's own sphere::hit reports for the same
\* ray and interval, no hit when no member hits, in either order of the list.
C4_SceneNearest ==
    WorldReturned =>
        LET hitters == {k \in 1..Len(call.world) : MemberHit(k).hit}
            rev == WorldHit(Reverse(call.world), call.r, call.t_min,
                            call.t_max, UninitRec)
        IN  /\ ret.hit <=> hitters # {}
            /\ ret.hit =>
                /\ \E k \in hitters : ret.rec.t = MemberHit(k).rec.t
                /\ \A k \in hitters : RLe(ret.rec.t, MemberHit(k).rec.t)
            /\ rev.hit = ret.hit
            /\ ret.hit => rev.rec.t = ret.rec.t

\* C4 witness: two members hit and the later one in the list is the nearer.
C4_Witness ==
    /\ WorldReturned /\ ret.hit
    /\ Len(call.world) = 2
    /\ MemberHit(1).hit /\ MemberHit(2).hit
    /\ RLt(MemberHit(2).rec.t, MemberHit(1).rec.t)
    /\ ret.rec.t = MemberHit(2).rec.t

-----------------------------------------------------------------------------
(* ray_color *)

color(e0, e1, e2) == vec3(e0, e1, e2)

\* random_in_hemisphere, given the draw of random_in_unit_sphere.
random_in_hemisphere(normal, in_unit_sphere) ==
    IF RLt(Zero, dot(in_unit_sphere, normal)) THEN in_unit_sphere
    ELSE VNeg(in_unit_sphere)

\* A wrong depth guard (depth 0 still shades), to compare with DepthExceeded.
DepthExceeded_Negative(depth) == depth < 0

DepthExceeded(depth) == depth <= 0

\* A wrong bounce ray (from the target point), to compare with BounceRay.
BounceRay_FromTarget(rec, target) == ray(target, VSub(target, rec.p))

BounceRay(rec, target) == ray(rec.p, VSub(target, rec.p))

\* A bounce that loses no light, to compare with Attenuate.
Attenuate_Not(c) == c

Attenuate(c) == VScale(Half, c)

\* The gradient with its two end colours exchanged, to compare with Background.
Background_Swapped(t) ==
    VAdd(VScale(t, color(One, One, One)),
         VScale(RSub(One, t), color(R(1, 2), R(7, 10), One)))

Background(t) ==
    VAdd(VScale(RSub(One, t), color(One, One, One)),
         VScale(t, color(R(1, 2), R(7, 10), One)))

\* ray_color(r, world, depth), with rnd the draws of random_in_unit_sphere it
\* will see, in order.  Beside the colour c it returns what the call did: the
\* number of world.hit queries made by it and the calls below it, and the
\* rays of those calls, outermost first.
RECURSIVE ray_color(_, _, _, _)
Scattered(r, sub) ==
    [c |-> Attenuate(sub.c), queries |-> 1 + sub.queries,
     rays |-> <<r>> \o sub.rays]

Sky(r, unit_direction) ==
    [c |-> Background(RMul(Half, RAdd(y_of(unit_direction), One))),
     queries |-> 1, rays |-> <<r>>]

Shade(r, world, depth, rnd, h) ==
    IF h.hit
    THEN Scattered(r,
           ray_color(BounceRay(h.rec,
                               VAdd(h.rec.p,
                                    random_in_hemisphere(h.rec.normal, Head(rnd)))),
                     world, depth - 1, Tail(rnd)))
    ELSE Sky(r, unit_vector(r.dir))

ray_color(r, world, depth, rnd) ==
    IF DepthExceeded(depth)
    THEN [c |-> color(Zero, Zero, Zero), queries |-> 0, rays |-> <<r>>]
    ELSE Shade(r, world, depth, rnd,
               WorldHit(world, r, R(1, 1000), infinity, UninitRec))

\* Each ray of the call that is tested against the world is rational and in
\* HitInDomain, and rnd is long enough for the bounces.
RECURSIVE ColorInDomain(_, _, _, _)
BounceInDomain(world, depth, rnd, h) ==
    h.hit =>
        /\ Len(rnd) > 0
        /\ ColorInDomain(
             ray(h.rec.p, random_in_hemisphere(h.rec.normal, Head(rnd))),
             world, depth - 1, Tail(rnd))

ColorInDomain(r, world, depth, rnd) ==
    \/ depth <= 0
    \/ /\ \A k \in 1..3 : ~IsSurd(r.orig[k]) /\ ~IsSurd(r.dir[k])
       /\ HitInDomain(world, r)
       /\ BounceInDomain(world, depth, rnd,
                         WorldHit(world, r, R(1, 1000), infinity, UninitRec))

\* main.cpp's hit_sphere: -1 without a real root, else the smaller root.
SmallerRoot(a, b, disc) ==
    IF RLt(disc, Zero) THEN R(-1, 1)
    ELSE RDiv(RSub(RNeg(b), sqrt(disc)), RMul(R(2, 1), a))

HitSphereOf(a, b, c) ==
    SmallerRoot(a, b, RSub(RMul(b, b), RMul(R(4, 1), RMul(a, c))))

HitSphereFrom(oc, radius, r) ==
    HitSphereOf(dot(r.dir, r.dir), RMul(R(2, 1), dot(oc, r.dir)),
                RSub(dot(oc, oc), RMul(radius, radius)))

hit_sphere(center, radius, r) == HitSphereFrom(VSub(r.orig, center), radius, r)

\* main.cpp's ray_color(r): the one sphere shaded by its normal, else the sky.
NormalColor(N) ==
    VScale(Half, color(RAdd(N[1], One), RAdd(N[2], One), RAdd(N[3], One)))

Shade_1(r, t) ==
    IF RLt(Zero, t)
    THEN NormalColor(unit_vector(VSub(at(r, t), VecI(0, 0, -1, 1))))
    ELSE Sky(r, unit_vector(r.dir)).c

ray_color_1(r) == Shade_1(r, hit_sphere(VecI(0, 0, -1, 1), R(1, 2), r))

-----------------------------------------------------------------------------
(* The calls of ray_color that are explored *)

DepthBound == 3

MainWorld == <<SmallSphere, GroundSphere>>

ColorWorlds == {<<>>, MainWorld, <<SphereA>>, <<SphereA, SphereB>>}

\* The camera's eye, and the centres of SmallSphere and SphereA.
ColorOrigins == {VecI(0, 0, 0, 1), VecI(0, 0, -1, 1), VecI(0, 0, -2, 1)}

ColorDirections ==
    {VecI(0, 1, 0, 1), VecI(0, -1, 0, 1), VecI(0, 0, -1, 1), VecI(0, 0, 1, 1),
     VecI(0, 1, -1, 1), VecI(1, 2, -2, 1)}

\* Draws of random_in_unit_sphere: length_squared < 1.
RandVecs == {VecI(0, 0, 1, 2), VecI(0, 1, 0, 2), VecI(1, 0, 0, 2)}

RECURSIVE SeqsOf(_, _)
SeqsOf(S, n) ==
    IF n = 0 THEN {<<>>}
    ELSE {<<x>> \o q : x \in S, q \in SeqsOf(S, n - 1)}

ColorCallsAt(k) ==
    {[fn |-> "ray_color", world |-> w, r |-> ray(o, d), depth |-> k, rnd |-> q] :
        w \in ColorWorlds, o \in ColorOrigins, d \in ColorDirections,
        q \in SeqsOf(RandVecs, IF k < 0 THEN 0 ELSE k)}

ColorCalls == UNION {ColorCallsAt(k) : k \in (-1)..DepthBound}

\* Calls of main.cpp's one-argument ray_color.
ColorCalls_1 ==
    {[fn |-> "ray_color(r)", world |-> <<SmallSphere>>, r |-> ray(o, d),
      depth |-> 1, rnd |-> <<>>] :
        o \in ColorOrigins \cup {VecI(0, 0, 1, 1)}, d \in ColorDirections}

NoColor == [c |-> color(Zero, Zero, Zero), queries |-> 0, rays |-> <<>>]

InitColor ==
    /\ call \in {c \in ColorCalls :
                    ColorInDomain(c.r, c.world, c.depth, c.rnd)} \cup ColorCalls_1
    /\ ret = NoColor
    /\ pc = "call"
    /\ MainIdle

CallRayColor ==
    /\ pc = "call" /\ call.fn = "ray_color"
    /\ ret' = ray_color(call.r, call.world, call.depth, call.rnd)
    /\ pc' = "returned"
    /\ UNCHANGED <<call, cfg, j, i, s, pixel_color, out>>

CallRayColor_1 ==
    /\ pc = "call" /\ call.fn = "ray_color(r)"
    /\ ret' = [c |-> ray_color_1(call.r), queries |-> 0, rays |-> <<call.r>>]
    /\ pc' = "returned"
    /\ UNCHANGED <<call, cfg, j, i, s, pixel_color, out>>

NextColor == CallRayColor \/ CallRayColor_1

SpecColor == InitColor /\ [][NextColor]_vars

-----------------------------------------------------------------------------
(* The ray_color claims, checked under SpecColor *)

ColorReturned == pc = "returned" /\ call.fn = "ray_color"

Black == color(Zero, Zero, Zero)

SceneHit(r) == WorldHit(call.world, r, R(1, 1000), infinity, UninitRec)

\* C5: ray_color called with depth <= 0 returns the zero colour for every ray
\* and every scene, without querying the scene and without a recursive call.
C5_DepthGuard ==
    ColorReturned /\ call.depth <= 0 =>
        /\ ret.c = Black
        /\ ret.queries = 0
        /\ ret.rays = <<call.r>>

\* C5 witness: depth 0 and a ray that the scene would have been hit by.
C5_Witness ==
    /\ ColorReturned /\ call.depth = 0
    /\ call.world = MainWorld
    /\ HitInDomain(call.world, call.r) /\ SceneHit(call.r).hit
    /\ ret.c = Black

\* The sky gradient in closed form: with u = y/|d|, the colour
\* ((3 - u)/4, (17 - 3u)/20, 1).
SkyOf(d) ==
    LET u == RDiv(d[2], sqrt(dot(d, d)))
    IN  color(RDiv(RSub(R(3, 1), u), R(4, 1)),
              RDiv(RSub(R(17, 1), RMul(R(3, 1), u)), R(20, 1)),
              One)

\* C8: for a ray that misses all geometry, ray_color (depth > 0) returns the
\* blend (1-t)(1,1,1) + t(0.5,0.7,1.0), t = 0.5(unit_direction.y + 1): a
\* function of the direction alone, (0.5,0.7,1.0) for direction (0,1,0) and
\* (1,1,1) for (0,-1,0), after one scene query and no recursive call; and
\* main.cpp's ray_color(r) returns the same blend for a ray that does not
\* meet its sphere at any t > 0.
C8_BackgroundGradient ==
    /\ (/\ ColorReturned /\ call.depth > 0
        /\ ~SceneHit(call.r).hit) =>
            /\ ret.c = SkyOf(call.r.dir)
            /\ call.r.dir = VecI(0, 1, 0, 1) =>
                    ret.c = color(R(1, 2), R(7, 10), One)
            /\ call.r.dir = VecI(0, -1, 0, 1) => ret.c = color(One, One, One)
            /\ ret.queries = 1
            /\ ret.rays = <<call.r>>
    /\ (/\ pc = "returned" /\ call.fn = "ray_color(r)"
        /\ \A t \in RealRoots(SmallSphere, call.r) : RLe(t, Zero)) =>
            /\ ret.c = SkyOf(call.r.dir)
            /\ call.r.dir = VecI(0, 1, 0, 1) =>
                    ret.c = color(R(1, 2), R(7, 10), One)
            /\ call.r.dir = VecI(0, -1, 0, 1) => ret.c = color(One, One, One)

\* C8 witness: straight up from the camera in main()'s scene.
C8_Witness ==
    /\ ColorReturned /\ call.depth > 0
    /\ call.world = MainWorld
    /\ call.r = ray(VecI(0, 0, 0, 1), VecI(0, 1, 0, 1))
    /\ ~SceneHit(call.r).hit
    /\ ret.c = color(R(1, 2), R(7, 10), One)

RECURSIVE HalfPower(_)
HalfPower(k) == IF k = 0 THEN One ELSE RMul(R(1, 2), HalfPower(k - 1))

\* The explicit loop: one ray, one attenuation product and one counter of
\* bounces left, advanced until the ray misses or the bounces run out.
RECURSIVE BounceLoop(_, _, _, _, _)
BounceLoop(cur, left, rnd, attenuation, queries) ==
    IF left <= 0
    THEN [c |-> Black, queries |-> queries, last |-> cur]
    ELSE
      LET h == SceneHit(cur)
      IN  IF ~h.hit
          THEN [c |-> VScale(attenuation, SkyOf(cur.dir)),
                queries |-> queries + 1, last |-> cur]
          ELSE
            LET v == Head(rnd)
                w == IF RLt(Zero, dot(v, h.rec.normal)) THEN v ELSE VNeg(v)
            IN  BounceLoop(ray(h.rec.p, w), left - 1, Tail(rnd),
                           RMul(attenuation, R(1, 2)), queries + 1)

\* C10: ray_color with depth d >= 0 equals the explicit loop: at most d scene
\* queries and d nested calls; 0.5^k times the sky colour of the first ray
\* that misses, k < d the number of hits before it, or black when all d rays
\* hit; each bounce ray starts at the hit point of the ray before it.
C10_LoopEquivalence ==
    ColorReturned /\ call.depth >= 0 =>
        LET d == call.depth
            loop == BounceLoop(call.r, d, call.rnd, One, 0)
            k == Len(ret.rays) - 1
            final == ret.rays[Len(ret.rays)]
        IN  /\ ret.c = loop.c
            /\ ret.queries = loop.queries
            /\ final = loop.last
            /\ ret.queries <= d
            /\ k <= d
            /\ \A m \in 1..k :
                /\ SceneHit(ret.rays[m]).hit
                /\ ret.rays[m + 1].orig = SceneHit(ret.rays[m]).rec.p
            /\ k < d =>
                /\ ~SceneHit(final).hit
                /\ ret.c = VScale(HalfPower(k), SkyOf(final.dir))
            /\ k = d => ret.c = Black

\* C10 witness: two bounces, then a miss, with depth to spare.
C10_Witness ==
    /\ ColorReturned /\ call.depth = 3
    /\ Len(ret.rays) = 3
    /\ ret.queries = 3
    /\ ret.c = VScale(R(1, 4), SkyOf(ret.rays[3].dir))
    /\ ret.c # Black

\* Every one of d successive rays hits: the bounded black contribution.
C10_AllHit ==
    /\ ColorReturned /\ call.depth = 3
    /\ Len(ret.rays) = 4
    /\ ret.c = Black

-----------------------------------------------------------------------------
(* main(): the image, the camera and the render loop *)

aspect_ratio == R(16, 9)

image_width == 400

\* static_cast<int> of a value >= 0: truncation.
static_cast_int(q) == q.n \div q.d

\* A wrong height (width times the aspect ratio), to compare with image_height.
image_height_Times(width) == static_cast_int(RMul(R(width, 1), aspect_ratio))

image_height(width) == static_cast_int(RDiv(R(width, 1), aspect_ratio))

viewport_height == R(2, 1)

viewport_width == RMul(aspect_ratio, viewport_height)

focal_length == One

origin == VecI(0, 0, 0, 1)

horizontal == vec3(viewport_width, Zero, Zero)

vertical == vec3(Zero, viewport_height, Zero)

lower_left_corner ==
    VSub(VSub(VSub(origin, VDiv(horizontal, R(2, 1))), VDiv(vertical, R(2, 1))),
         vec3(Zero, Zero, focal_length))

get_ray(u, v) ==
    ray(origin,
        VSub(VAdd(VAdd(lower_left_corner, VScale(u, horizontal)),
                  VScale(v, vertical)),
             origin))

\* main.cpp: u = double(i) / (image_width - 1).
PixelCoord(k, n) == RDiv(R(k, 1), R(n - 1, 1))

\* The sample coordinate without its draw, to compare with SampleCoord.
SampleCoord_NoJitter(k, xi, n) == RDiv(R(k, 1), R(n - 1, 1))

\* part_000: u = (i + random_double()) / (image_width - 1), xi the draw.
SampleCoord(k, xi, n) == RDiv(RAdd(R(k, 1), xi), R(n - 1, 1))

\* A sample loop that runs once more, to compare with MoreSamples.
MoreSamples_OneMore(count, n) == count <= n

\* The test of the sample loop, s < samples_per_pixel.
MoreSamples(count, n) == count < n

\* Values of random_double(), which lie in [0, 1).
RandDoubles == {Zero, Half}

WidthBound == 7

SampleBound == 2

BounceBound == 1

\* main.cpp as compiled; part_000 at reduced image_width, samples_per_pixel
\* and max_depth (its loop is the same code for every value of the three).
RenderConfigs ==
    {[program |-> "main.cpp", image_width |-> image_width,
      samples_per_pixel |-> 1, max_depth |-> 0]}
    \cup {[program |-> "part_000", image_width |-> w, samples_per_pixel |-> n,
           max_depth |-> d] :
            w \in {x \in 1..WidthBound : image_height(x) >= 2},
            n \in 1..SampleBound, d \in 1..BounceBound}

Height == image_height(cfg.image_width)

InitRender ==
    /\ cfg \in RenderConfigs
    /\ pc = "start"
    /\ j = 0 /\ i = 0 /\ s = 0
    /\ pixel_color = <<>>
    /\ out = [header |-> <<>>, pixels |-> 0, last |-> <<>>]
    /\ call = [fn |-> "main"]
    /\ ret = NoColor

\* std::cout << "P3\n" << image_width << ' ' << image_height << "\n255\n",
\* and the initialisation of the row loop.
PrintHeader ==
    /\ pc = "start"
    /\ out' = [out EXCEPT !.header = @ \o <<"P3", cfg.image_width, Height, 255>>]
    /\ j' = Height - 1
    /\ pc' = "scanline"
    /\ UNCHANGED <<call, ret, cfg, i, s, pixel_color>>

\* j >= 0: the row's progress line goes to std::cerr; the column loop starts.
BeginScanline ==
    /\ pc = "scanline" /\ j >= 0
    /\ i' = 0
    /\ pc' = "pixel"
    /\ UNCHANGED <<call, ret, cfg, j, s, pixel_color, out>>

\* part_000: color pixel_color(0, 0, 0) and the start of the sample loop.
BeginPixel ==
    /\ pc = "pixel" /\ cfg.program = "part_000"
    /\ i < cfg.image_width
    /\ pixel_color' = <<>>
    /\ s' = 0
    /\ pc' = "sample"
    /\ UNCHANGED <<call, ret, cfg, j, i, out>>

\* part_000: one sample.  pixel_color += ray_color(r, world, max_depth) is
\* kept as the call added: its two draws, its ray and its depth.
Sample ==
    /\ pc = "sample"
    /\ MoreSamples(s, cfg.samples_per_pixel)
    /\ \E xi1 \in RandDoubles, xi2 \in RandDoubles :
          pixel_color' =
              Append(pixel_color,
                     [draws |-> <<xi1, xi2>>,
                      r |-> get_ray(SampleCoord(i, xi1, cfg.image_width),
                                    SampleCoord(j, xi2, Height)),
                      depth |-> cfg.max_depth])
    /\ s' = s + 1
    /\ UNCHANGED <<call, ret, cfg, pc, j, i, out>>

\* part_000: write_color(std::cout, pixel_color, samples_per_pixel), ++i.
WritePixel ==
    /\ pc = "sample"
    /\ ~MoreSamples(s, cfg.samples_per_pixel)
    /\ out' = [out EXCEPT !.pixels = @ + 1,
                          !.last = [i |-> i, j |-> j,
                                    samples |-> Len(pixel_color)]]
    /\ i' = i + 1
    /\ pc' = "pixel"
    /\ UNCHANGED <<call, ret, cfg, j, s, pixel_color>>

\* main.cpp: the whole body of the column loop: one ray through the pixel,
\* pixel_color = ray_color(r), write_color(std::cout, pixel_color), ++i.
ShadePixel ==
    /\ pc = "pixel" /\ cfg.program = "main.cpp"
    /\ i < cfg.image_width
    /\ pixel_color' = <<[draws |-> <<>>,
                         r |-> get_ray(PixelCoord(i, cfg.image_width),
                                       PixelCoord(j, Height)),
                         depth |-> 0]>>
    /\ out' = [out EXCEPT !.pixels = @ + 1,
                          !.last = [i |-> i, j |-> j, samples |-> 1]]
    /\ i' = i + 1
    /\ UNCHANGED <<call, ret, cfg, pc, j, s>>

\* i = image_width: --j.
EndScanline ==
    /\ pc = "pixel" /\ ~(i < cfg.image_width)
    /\ j' = j - 1
    /\ pc' = "scanline"
    /\ UNCHANGED <<call, ret, cfg, i, s, pixel_color, out>>

\* j < 0: "Done." goes to std::cerr and main returns.
Done ==
    /\ pc = "scanline" /\ ~(j >= 0)
    /\ pc' = "done"
    /\ UNCHANGED <<call, ret, cfg, j, i, s, pixel_color, out>>

NextRender ==
    \/ PrintHeader
    \/ BeginScanline
    \/ BeginPixel
    \/ Sample
    \/ WritePixel
    \/ ShadePixel
    \/ EndScanline
    \/ Done

SpecRender == InitRender /\ [][NextRender]_vars

-----------------------------------------------------------------------------
(* The render claims, checked under SpecRender *)

InPart000 == cfg.program = "part_000"

\* The camera ray through viewport coordinates (u, v), in closed form: from
\* the eye to (-16/9 + (32/9) u, -1 + 2 v, -1).
CameraRay(u, v) ==
    [orig |-> <<Zero, Zero, Zero>>,
     dir |-> <<RAdd(R(-16, 9), RMul(R(32, 9), u)),
               RAdd(R(-1, 1), RMul(R(2, 1), v)),
               R(-1, 1)>>]

\* The value of the accumulator: the colours of the calls added, each with
\* the draws of random_in_unit_sphere its call sees, summed from (0, 0, 0).
RECURSIVE SumColors(_, _)
SumColors(addends, rnds) ==
    IF addends = <<>> THEN color(Zero, Zero, Zero)
    ELSE VAdd(SumColors(SubSeq(addends, 1, Len(addends) - 1), rnds),
              ray_color(addends[Len(addends)].r, MainWorld,
                        addends[Len(addends)].depth, rnds[Len(addends)]).c)

\* The one sample of a pixel has been taken, samples_per_pixel = 1.
OneSampleTaken ==
    /\ InPart000 /\ cfg.samples_per_pixel = 1
    /\ pc = "sample" /\ s = 1

CentreRay ==
    CameraRay(RDiv(R(i, 1), R(cfg.image_width - 1, 1)),
              RDiv(R(j, 1), R(Height - 1, 1)))

\* C6 as stated: with samples_per_pixel = 1 the sampler's result for pixel
\* (i, j) is that of one ray_color call on the camera ray for the unjittered
\* coordinates u = i/(width-1), v = j/(height-1), whatever the random source.
C6_UnjitteredSample ==
    OneSampleTaken =>
        \A rnd \in SeqsOf(RandVecs, cfg.max_depth) :
            (/\ ColorInDomain(CentreRay, MainWorld, cfg.max_depth, rnd)
             /\ ColorInDomain(pixel_color[1].r, MainWorld, cfg.max_depth, rnd))
                => SumColors(pixel_color, <<rnd>>)
                       = ray_color(CentreRay, MainWorld, cfg.max_depth, rnd).c

\* C6 amended: with samples_per_pixel = 1 the sampler's result for pixel
\* (i, j) is that of one ray_color call, at max_depth, on the camera ray for
\* the jittered coordinates u = (i + xi1)/(width-1), v = (j + xi2)/(height-1),
\* xi1 and xi2 the two draws of random_double() in [0, 1); it is the ray of
\* the unjittered coordinates exactly when both draws are 0.
C6_JitteredSample ==
    OneSampleTaken =>
        /\ Len(pixel_color) = 1
        /\ LET xi == pixel_color[1].draws
               jittered ==
                   CameraRay(RDiv(RAdd(R(i, 1), xi[1]), R(cfg.image_width - 1, 1)),
                             RDiv(RAdd(R(j, 1), xi[2]), R(Height - 1, 1)))
           IN  /\ RLe(Zero, xi[1]) /\ RLt(xi[1], One)
               /\ RLe(Zero, xi[2]) /\ RLt(xi[2], One)
               /\ pixel_color[1].r = jittered
               /\ pixel_color[1].depth = cfg.max_depth
               /\ (jittered = CentreRay) <=> (xi = <<Zero, Zero>>)
               /\ \A rnd \in SeqsOf(RandVecs, cfg.max_depth) :
                    ColorInDomain(jittered, MainWorld, cfg.max_depth, rnd)
                        => SumColors(pixel_color, <<rnd>>)
                               = ray_color(jittered, MainWorld, cfg.max_depth,
                                           rnd).c

\* C6 witness: one sample with both draws 1/2, whose colour is not the colour
\* of the unjittered ray.
C6_Witness ==
    /\ OneSampleTaken
    /\ pixel_color[1].draws = <<Half, Half>>
    /\ \E rnd \in SeqsOf(RandVecs, cfg.max_depth) :
        /\ ColorInDomain(CentreRay, MainWorld, cfg.max_depth, rnd)
        /\ ColorInDomain(pixel_color[1].r, MainWorld, cfg.max_depth, rnd)
        /\ SumColors(pixel_color, <<rnd>>)
               # ray_color(CentreRay, MainWorld, cfg.max_depth, rnd).c

\* int(width / (16/9)) over the integers.
HeightOf(width) == (9 * width) \div 16

\* C7, its state part: the header is written once, before any pixel, as
\* 'P3', width, height, '255'; the pixel writes never exceed and at the end
\* equal width*height; as compiled that is '400 225' and 90000.
C7_HeaderAndCount ==
    LET w == cfg.image_width
        h == HeightOf(cfg.image_width)
    IN  /\ pc = "start" => out.header = <<>> /\ out.pixels = 0
        /\ pc # "start" => out.header = <<"P3", w, h, 255>>
        /\ out.pixels <= w * h
        /\ pc = "done" => out.pixels = w * h
        /\ cfg.program = "main.cpp" =>
            /\ w = 400 /\ h = 225
            /\ pc # "start" => out.header = <<"P3", 400, 225, 255>>
            /\ pc = "done" => out.pixels = 90000

\* The number of steps main() has left: per pixel PerPixel, per row two more
\* than its pixels', and one each for the header and the return.
PerPixel == IF InPart000 THEN cfg.samples_per_pixel + 2 ELSE 1

PerRow == 2 + cfg.image_width * PerPixel

StepsLeft ==
    CASE pc = "start" -> 2 + HeightOf(cfg.image_width) * PerRow
      [] pc = "scanline" -> 1 + (j + 1) * PerRow
      [] pc = "pixel" -> 2 + j * PerRow + (cfg.image_width - i) * PerPixel
      [] pc = "sample" -> 3 + j * PerRow + (cfg.image_width - i - 1) * PerPixel
                            + (cfg.samples_per_pixel - s)
      [] pc = "done" -> 0

\* C7: a complete render emits the header 'P3', '400 225', '255' exactly once
\* and before any pixel, followed by exactly width*height = 90000 pixel
\* writes, and then terminates: each step lowers by one the natural number of
\* steps left, which is 0 only when main has returned.
C7_CompleteRender ==
    /\ []C7_HeaderAndCount
    /\ [](StepsLeft >= 0 /\ (StepsLeft = 0 <=> pc = "done"))
    /\ [][StepsLeft' = StepsLeft - 1]_vars

\* C7 witness: main.cpp's render is done, 90000 pixels after its header.
C7_Witness ==
    /\ cfg.program = "main.cpp" /\ pc = "done"
    /\ out.header = <<"P3", 400, 225, 255>>
    /\ out.pixels = 90000

\* The pixel that is number k (from 0) in the order rows image_height-1 down
\* to 0, columns 0 to image_width-1.
PixelNumber(k) ==
    [i |-> k % cfg.image_width,
     j |-> HeightOf(cfg.image_width) - 1 - (k \div cfg.image_width)]

\* C9: the render loop visits pixels in a fixed order, rows j from
\* image_height-1 down to 0 and columns i from 0 to image_width-1 in each;
\* for every pixel it makes exactly samples_per_pixel ray_color calls, each
\* at max_depth, into an accumulator reset to (0,0,0), then one write_color
\* for that pixel before any sample of the next pixel.
C9_RenderOrder ==
    InPart000 =>
        LET w == cfg.image_width
            h == HeightOf(cfg.image_width)
            n == cfg.samples_per_pixel
        IN  /\ pc \in {"pixel", "sample"} =>
                /\ j \in 0..(h - 1) /\ i \in 0..w
                /\ out.pixels = (h - 1 - j) * w + i
            /\ pc = "sample" =>
                /\ [i |-> i, j |-> j] = PixelNumber(out.pixels)
                /\ Len(pixel_color) = s /\ s <= n
                /\ \A k \in 1..Len(pixel_color) :
                    /\ pixel_color[k].depth = cfg.max_depth
                    /\ pixel_color[k].r.orig = <<Zero, Zero, Zero>>
            /\ out.pixels > 0 =>
                /\ out.last.samples = n
                /\ [i |-> out.last.i, j |-> out.last.j]
                       = PixelNumber(out.pixels - 1)
            /\ pc = "done" => out.pixels = w * h

\* C9 witness: in the second row from the top, past its first pixel, both
\* samples of a pixel taken and its colour not yet written.
C9_Witness ==
    /\ InPart000 /\ cfg.samples_per_pixel = 2
    /\ pc = "sample" /\ s = 2 /\ Len(pixel_color) = 2
    /\ j = HeightOf(cfg.image_width) - 2 /\ i > 0
    /\ out.pixels = cfg.image_width + i
    /\ out.last = [i |-> i - 1, j |-> j, samples |-> 2]

====
